---- MODULE Spec2Model ----
(***************************************************************************)
(* A model of app.py: the call-transcript analyzer.  Text values are       *)
(* sequences of one-character strings, so that Python's str operations     *)
(* (strip, replace, split, startswith) are computed character by           *)
(* character.                                                              *)
(***************************************************************************)
EXTENDS Integers, Sequences, FiniteSets, TLC

VARIABLES
    client,      \* the module-level Groq client: "None" or "Groq"
    file,        \* call_analysis.csv: [exists, data], data a sequence of characters
    req,         \* the request being answered
    resp,        \* the response to it
    run,         \* what the handler did for it: extraction, inference calls, save
    lastSaved,   \* the arguments of the most recent save_to_csv call that wrote the file
    completion,  \* a sentiment completion handed to the clean-up
    label,       \* the clean-up's result for it
    relabel,     \* the clean-up applied to that result
    pc,          \* per worker thread: its position inside save_to_csv / download_csv
    job,         \* per worker thread: what it writes and its buffered bytes
    overlap      \* whether two save_to_csv calls have had the file open at the same time

vars == <<client, file, req, resp, run, lastSaved,
          completion, label, relabel, pc, job, overlap>>

----------------------------------------------------------------------------
(* Bounds *)

\* the longest completion text enumerated exhaustively for the clean-up
MaxLen == 4

\* the number of request threads that run save_to_csv / download_csv concurrently
NumThreads == 3

----------------------------------------------------------------------------
(* Python str operations *)

NoText == <<>>

\* the characters str.strip() removes (those of them the model's texts use)
Whitespace == {" ", "\t", "\n", "\r"}

Min(S) == CHOOSE x \in S : \A y \in S : x <= y
Max(S) == CHOOSE x \in S : \A y \in S : x >= y

\* c in s
Contains(s, c) == \E i \in 1..Len(s) : s[i] = c

\* s.strip()
Strip(s) ==
    LET keep == {i \in 1..Len(s) : s[i] \notin Whitespace}
    IN  IF keep = {} THEN NoText ELSE SubSeq(s, Min(keep), Max(keep))

\* s.replace(c, '')
Remove(s, c) == SelectSeq(s, LAMBDA ch : ch # c)

\* s.replace(c, d) for single characters
Replace(s, c, d) == [i \in 1..Len(s) |-> IF s[i] = c THEN d ELSE s[i]]

\* s.split(c): the segments between the occurrences of c, always at least one
RECURSIVE Split(_, _)
Split(s, c) ==
    IF ~Contains(s, c) THEN <<s>>
    ELSE LET i == Min({k \in 1..Len(s) : s[k] = c})
         IN  <<SubSeq(s, 1, i - 1)>> \o Split(SubSeq(s, i + 1, Len(s)), c)

\* s.startswith(p)
StartsWith(s, p) == Len(s) >= Len(p) /\ SubSeq(s, 1, Len(p)) = p

\* every text of length at most n over the alphabet A
RECURSIVE TextsUpTo(_, _)
TextsUpTo(A, n) ==
    IF n = 0 THEN {NoText}
    ELSE LET shorter == TextsUpTo(A, n - 1)
         IN  shorter \cup {Append(t, c) : t \in shorter, c \in A}

----------------------------------------------------------------------------
(* analyze_transcript: the clean-up of the sentiment completion *)

\* a period step that forgets the strip() of line 106
CleanSentimentNoStrip(content) ==
    LET sentiment == Strip(content)
        s1 == Strip(Remove(Remove(sentiment, "\""), "'"))
        s2 == IF Contains(s1, "\n") THEN Strip(Split(s1, "\n")[1]) ELSE s1
        s3 == IF Contains(s2, ":")
              THEN LET p == Split(s2, ":") IN Strip(p[Len(p)])
              ELSE s2
        sentiment_parts == Split(s3, ".")
    IN  IF Len(sentiment_parts) > 1 THEN sentiment_parts[1] ELSE s3

\* a colon step that keeps the text before the first colon, split(':')[0]
CleanSentimentFirstColon(content) ==
    LET sentiment == Strip(content)
        s1 == Strip(Remove(Remove(sentiment, "\""), "'"))
        s2 == IF Contains(s1, "\n") THEN Strip(Split(s1, "\n")[1]) ELSE s1
        s3 == IF Contains(s2, ":") THEN Strip(Split(s2, ":")[1]) ELSE s2
        sentiment_parts == Split(s3, ".")
    IN  IF Len(sentiment_parts) > 1 THEN Strip(sentiment_parts[1]) ELSE s3

\* lines 89-106: sentiment_clean from the completion's content
CleanSentiment(content) ==
    LET sentiment == Strip(content)
        s1 == Strip(Remove(Remove(sentiment, "\""), "'"))
        s2 == IF Contains(s1, "\n") THEN Strip(Split(s1, "\n")[1]) ELSE s1
        s3 == IF Contains(s2, ":")
              THEN LET p == Split(s2, ":") IN Strip(p[Len(p)])
              ELSE s2
        sentiment_parts == Split(s3, ".")
    IN  IF Len(sentiment_parts) > 1 THEN Strip(sentiment_parts[1]) ELSE s3

----------------------------------------------------------------------------
(* Python values: what json.loads and request.get_json() hand to the code *)

\* a value with its Python type; s is the text of a str and the digits of an
\* int, items are the elements (texts) of a list
PyStrVal(t)   == [ty |-> "str",      s |-> t,      items |-> <<>>]
PyIntVal(d)   == [ty |-> "int",      s |-> d,      items |-> <<>>]
PyNone        == [ty |-> "NoneType", s |-> NoText, items |-> <<>>]
PyListVal(xs) == [ty |-> "list",     s |-> NoText, items |-> xs]

\* bool(v), as `not transcript` and `not data` use it
Truthy(v) ==
    CASE v.ty = "str"      -> v.s # NoText
      [] v.ty = "int"      -> v.s # <<"0">>
      [] v.ty = "list"     -> v.items # <<>>
      [] OTHER             -> FALSE

\* sep.join(texts)
RECURSIVE Join(_, _)
Join(texts, sep) ==
    IF texts = <<>> THEN NoText
    ELSE IF Len(texts) = 1 THEN texts[1]
    ELSE texts[1] \o sep \o Join(Tail(texts), sep)

\* repr(v), for the plain texts (no quotes, backslashes or control characters)
\* the model puts inside containers
PyRepr(v) ==
    CASE v.ty = "str"  -> <<"'">> \o v.s \o <<"'">>
      [] v.ty = "int"  -> v.s
      [] v.ty = "list" -> <<"[">> \o Join([i \in 1..Len(v.items) |->
                              <<"'">> \o v.items[i] \o <<"'">>], <<",", " ">>) \o <<"]">>
      [] OTHER         -> <<"N", "o", "n", "e">>

\* str(v)
PyStr(v) == IF v.ty = "str" THEN v.s ELSE PyRepr(v)

\* the result of json.loads: a decode failure, a dict (its key/value pairs in
\* document order) or any other value
Malformed      == [kind |-> "malformed", pairs |-> <<>>, value |-> PyNone]
DictDoc(pairs) == [kind |-> "dict",      pairs |-> pairs, value |-> PyNone]
ValueDoc(v)    == [kind |-> "value",     pairs |-> <<>>, value |-> v]

KeyTranscript   == <<"t", "r", "a", "n", "s", "c", "r", "i", "p", "t">>
KeyConversation == <<"c", "o", "n", "v", "e", "r", "s", "a", "t", "i", "o", "n">>
KeyDialogue     == <<"d", "i", "a", "l", "o", "g", "u", "e">>
KeyText         == <<"t", "e", "x", "t">>
KeyId           == <<"i", "d">>

\* key in data, data[key] for a dict
HasKey(pairs, key) == \E i \in 1..Len(pairs) : pairs[i].k = key
Lookup(pairs, key) == pairs[Max({i \in 1..Len(pairs) : pairs[i].k = key})].v

\* str(data) of a dict
DictStr(pairs) ==
    <<"{">> \o Join([i \in 1..Len(pairs) |->
                <<"'">> \o pairs[i].k \o <<"'", ":", " ">> \o PyRepr(pairs[i].v)],
                <<",", " ">>) \o <<"}">>

----------------------------------------------------------------------------
(* parse_json_transcript *)

\* an except branch that hands back the unparsed content (here "{") instead of None
ParseJsonTranscriptRaw(doc) ==
    IF doc.kind = "malformed" THEN PyStrVal(<<"{">>)
    ELSE IF doc.kind = "dict" THEN
        IF HasKey(doc.pairs, KeyTranscript) THEN Lookup(doc.pairs, KeyTranscript)
        ELSE IF HasKey(doc.pairs, KeyConversation) THEN Lookup(doc.pairs, KeyConversation)
        ELSE IF HasKey(doc.pairs, KeyDialogue) THEN Lookup(doc.pairs, KeyDialogue)
        ELSE IF HasKey(doc.pairs, KeyText) THEN Lookup(doc.pairs, KeyText)
        ELSE PyStrVal(DictStr(doc.pairs))
    ELSE IF doc.value.ty = "list" THEN PyStrVal(Join(doc.value.items, <<" ">>))
    ELSE PyStrVal(PyStr(doc.value))

\* lines 146-166; None when json.loads raises JSONDecodeError
ParseJsonTranscript(doc) ==
    IF doc.kind = "malformed" THEN PyNone
    ELSE IF doc.kind = "dict" THEN
        IF HasKey(doc.pairs, KeyTranscript) THEN Lookup(doc.pairs, KeyTranscript)
        ELSE IF HasKey(doc.pairs, KeyConversation) THEN Lookup(doc.pairs, KeyConversation)
        ELSE IF HasKey(doc.pairs, KeyDialogue) THEN Lookup(doc.pairs, KeyDialogue)
        ELSE IF HasKey(doc.pairs, KeyText) THEN Lookup(doc.pairs, KeyText)
        ELSE PyStrVal(DictStr(doc.pairs))
    ELSE IF doc.value.ty = "list" THEN PyStrVal(Join(doc.value.items, <<" ">>))
    ELSE PyStrVal(PyStr(doc.value))

----------------------------------------------------------------------------
(* analyze_transcript *)

ErrorPrefix    == <<"E", "r", "r", "o", "r">>
ErrNotInit     == <<"E", "r", "r", "o", "r", ":", " ", "G", "r", "o", "q", " ", "c", "l", "i", "e", "n", "t", " ", "n", "o", "t", " ", "i", "n", "i", "t", "i", "a", "l", "i", "z", "e", "d">>
ErrSummary(e)  == <<"E", "r", "r", "o", "r", " ", "g", "e", "n", "e", "r", "a", "t", "i", "n", "g", " ", "s", "u", "m", "m", "a", "r", "y", ":", " ">> \o e
ErrSentiment(e) == <<"E", "r", "r", "o", "r", " ", "a", "n", "a", "l", "y", "z", "i", "n", "g", " ", "s", "e", "n", "t", "i", "m", "e", "n", "t", ":", " ">> \o e

\* an except branch whose second value lacks the "Error" prefix
AnalyzeTranscriptBareMessage(cl, o1, o2) ==
    IF cl = "None" THEN
        [summary |-> ErrNotInit, sentiment |-> ErrNotInit, calls |-> 0,
         outcome |-> "unavailable"]
    ELSE IF ~o1.ok THEN
        [summary |-> ErrSummary(o1.text), sentiment |-> o1.text, calls |-> 1,
         outcome |-> "failed"]
    ELSE IF ~o2.ok THEN
        [summary |-> ErrSummary(o2.text), sentiment |-> o2.text, calls |-> 2,
         outcome |-> "failed"]
    ELSE
        [summary |-> Strip(o1.text), sentiment |-> CleanSentiment(o2.text),
         calls |-> 2, outcome |-> "completed"]

\* lines 29-115.  o1 and o2 are what the two client.chat.completions.create
\* calls do: return a completion (ok, its content in text) or raise (the
\* exception's message in text).  The second call is made only when the first
\* returned.
AnalyzeTranscript(cl, o1, o2) ==
    IF cl = "None" THEN
        [summary |-> ErrNotInit, sentiment |-> ErrNotInit, calls |-> 0,
         outcome |-> "unavailable"]
    ELSE IF ~o1.ok THEN
        [summary |-> ErrSummary(o1.text), sentiment |-> ErrSentiment(o1.text),
         calls |-> 1, outcome |-> "failed"]
    ELSE IF ~o2.ok THEN
        [summary |-> ErrSummary(o2.text), sentiment |-> ErrSentiment(o2.text),
         calls |-> 2, outcome |-> "failed"]
    ELSE
        [summary |-> Strip(o1.text), sentiment |-> CleanSentiment(o2.text),
         calls |-> 2, outcome |-> "completed"]

\* lines 200 and 228: the guard of save_to_csv
ShouldSave(summary, sentiment) ==
    ~(StartsWith(summary, ErrorPrefix) \/ StartsWith(sentiment, ErrorPrefix))

----------------------------------------------------------------------------
(* The csv module: DictWriter with QUOTE_MINIMAL, DictReader *)

\* writer.writeheader() for fieldnames Transcript, Summary, Sentiment
Header == <<"T", "r", "a", "n", "s", "c", "r", "i", "p", "t", ",", "S", "u", "m", "m", "a", "r", "y", ",", "S", "e", "n", "t", "i", "m", "e", "n", "t", "\r", "\n">>

\* QUOTE_MINIMAL: a field is quoted when it holds the delimiter, the quote
\* character or a line break; a quote character inside is doubled
NeedsQuote(f) == \E i \in 1..Len(f) : f[i] \in {",", "\"", "\r", "\n"}

RECURSIVE DoubleQuotes(_)
DoubleQuotes(f) ==
    IF f = NoText THEN NoText
    ELSE (IF Head(f) = "\"" THEN <<"\"", "\"">> ELSE <<Head(f)>>) \o DoubleQuotes(Tail(f))

QuoteField(f) ==
    IF NeedsQuote(f) THEN <<"\"">> \o DoubleQuotes(f) \o <<"\"">> ELSE f

\* writer.writerow: the fields joined by commas, ended by \r\n
WriteRow(fields) ==
    Join([i \in 1..Len(fields) |-> QuoteField(fields[i])], <<",">>) \o <<"\r", "\n">>

\* csv.reader over the characters d: st is the parser's state, field and row
\* what it has collected of the current field and row, rows the finished rows.
\* Blank lines give no row (DictReader skips them).
RECURSIVE CsvParse(_, _, _, _, _)
CsvParse(d, st, field, row, rows) ==
    IF d = NoText THEN
        IF st = "record" THEN rows ELSE Append(rows, Append(row, field))
    ELSE
        LET c == Head(d)
            rest == Tail(d)
            endField == CsvParse(rest, "start", NoText, Append(row, field), rows)
            endRow == CsvParse(rest, "record", NoText, <<>>, Append(rows, Append(row, field)))
            take(next) == CsvParse(rest, next, Append(field, c), row, rows)
        IN  CASE st = "record" /\ c \in {"\r", "\n"} ->
                    CsvParse(rest, "record", NoText, <<>>, rows)
              [] st \in {"record", "start"} /\ c = "\"" ->
                    CsvParse(rest, "quoted", field, row, rows)
              [] st \in {"record", "start", "field", "endquote"} /\ c = "," -> endField
              [] st \in {"start", "field", "endquote"} /\ c \in {"\r", "\n"} -> endRow
              [] st = "quoted" /\ c = "\"" ->
                    CsvParse(rest, "endquote", field, row, rows)
              [] st = "quoted" /\ c # "\"" -> take("quoted")
              [] st = "endquote" /\ c = "\"" -> take("quoted")
              [] OTHER -> take("field")

\* open(filename, 'r') reads with universal newlines: \r\n and \r become \n
RECURSIVE UniversalNewlines(_)
UniversalNewlines(d) ==
    IF d = NoText THEN NoText
    ELSE IF Head(d) = "\r" THEN
        <<"\n">> \o UniversalNewlines(IF Len(d) > 1 /\ d[2] = "\n"
                                      THEN Tail(Tail(d)) ELSE Tail(d))
    ELSE <<Head(d)>> \o UniversalNewlines(Tail(d))

\* list(csv.DictReader(csvfile)): the rows after the header row, each the
\* sequence of its fields in column order
Records(d) ==
    LET rows == CsvParse(UniversalNewlines(d), "record", NoText, <<>>, <<>>)
    IN  IF rows = <<>> THEN <<>> ELSE Tail(rows)

----------------------------------------------------------------------------
(* The store file call_analysis.csv *)

Absent == [exists |-> FALSE, data |-> NoText]

\* open(filename, 'a'): nothing is dropped, writes go to the end
OpenAppend(f) == [data |-> f.data, pos |-> Len(f.data)]

\* open(filename, 'w', ...) of lines 126 and 260: the file is created or
\* truncated, the descriptor's offset is 0
OpenTruncate(f) == [data |-> NoText, pos |-> 0]

\* write(2) of the buffered bytes buf at offset pos: they replace what is
\* there and extend the file where they reach past its end
WriteAt(data, pos, buf) ==
    [i \in 1..Max({Len(data), pos + Len(buf)}) |->
        IF i > pos /\ i <= pos + Len(buf) THEN buf[i - pos]
        ELSE IF i <= Len(data) THEN data[i] ELSE "\\0"]

\* lines 121-123
CleanField(t) == Strip(Remove(Replace(Replace(t, "\n", " "), "\r", " "), "\""))

\* what save_to_csv writes: the header and the one row
SaveBytes(transcript, summary, sentiment) ==
    Header \o WriteRow(<<CleanField(transcript), CleanField(summary),
                         CleanField(sentiment)>>)

\* save_to_csv opening the file in append mode 'a'
SaveToCsvAppend(f, transcript, summary, sentiment) ==
    LET o == OpenAppend(f)
    IN  [exists |-> TRUE,
         data |-> WriteAt(o.data, o.pos, SaveBytes(transcript, summary, sentiment))]

\* lines 117-140 run without interruption
SaveToCsv(f, transcript, summary, sentiment) ==
    LET o == OpenTruncate(f)
    IN  [exists |-> TRUE,
         data |-> WriteAt(o.data, o.pos, SaveBytes(transcript, summary, sentiment))]

\* lines 260-263 run without interruption
CreateHeaderOnly(f) ==
    LET o == OpenTruncate(f)
    IN  [exists |-> TRUE, data |-> WriteAt(o.data, o.pos, Header)]

----------------------------------------------------------------------------
(* The requests the model sends *)

\* the transcript form field of /analyze
FormTexts ==
    { NoText, <<" ", "\n">>, <<" ", "h", "i", " ">>, <<"a", "\"", "b">>,
      <<"a", ",", "\n", "b">> }

\* what json.loads makes of an uploaded file's content
UploadDocs ==
    { Malformed,
      DictDoc(<<[k |-> KeyTranscript, v |-> PyStrVal(<<"h", "i">>)]>>),
      DictDoc(<<[k |-> KeyTranscript, v |-> PyStrVal(<<>>)]>>),
      DictDoc(<<[k |-> KeyTranscript, v |-> PyStrVal(<<" ">>)]>>),
      DictDoc(<<[k |-> KeyTranscript, v |-> PyIntVal(<<"5">>)]>>),
      DictDoc(<<[k |-> KeyText, v |-> PyListVal(<<<<"a">>>>)]>>),
      DictDoc(<<[k |-> KeyConversation, v |-> PyStrVal(<<"c">>)],
                [k |-> KeyTranscript, v |-> PyStrVal(<<"t">>)]>>),
      DictDoc(<<[k |-> KeyText, v |-> PyStrVal(<<"x">>)],
                [k |-> KeyDialogue, v |-> PyStrVal(<<"d">>)]>>),
      DictDoc(<<[k |-> KeyId, v |-> PyIntVal(<<"7">>)]>>),
      ValueDoc(PyListVal(<<<<"a">>, <<"b">>, <<"c">>>>)),
      ValueDoc(PyIntVal(<<"5">>)) }

\* the files part of a POST /analyze: no json_file part; a part whose name
\* does not end in .json; one whose bytes are not UTF-8 (no JSON document,
\* so doc is Malformed); one that decodes
AnalyzeRequests ==
    {[route |-> "/analyze", upload |-> "none", form |-> t, doc |-> Malformed] :
        t \in FormTexts}
    \cup {[route |-> "/analyze", upload |-> "undecodable", form |-> NoText,
           doc |-> Malformed]}
    \cup {[route |-> "/analyze", upload |-> u, form |-> NoText, doc |-> d] :
        u \in {"badname", "decoded"}, d \in UploadDocs}

\* what request.get_json() returns for the body of a POST /api/analyze
ApiBodies ==
    { ValueDoc(PyNone),
      DictDoc(<<>>),
      DictDoc(<<[k |-> KeyId, v |-> PyIntVal(<<"7">>)]>>),
      DictDoc(<<[k |-> KeyTranscript, v |-> PyStrVal(<<" ", "h", "i", " ">>)]>>),
      DictDoc(<<[k |-> KeyTranscript, v |-> PyStrVal(<<>>)]>>),
      DictDoc(<<[k |-> KeyTranscript, v |-> PyStrVal(<<" ">>)]>>),
      DictDoc(<<[k |-> KeyTranscript, v |-> PyIntVal(<<"5">>)]>>),
      ValueDoc(PyListVal(<<<<"x">>>>)),
      ValueDoc(PyListVal(<<KeyTranscript>>)),
      ValueDoc(PyIntVal(<<"5">>)) }

ApiRequests ==
    {[route |-> "/api/analyze", upload |-> "none", form |-> NoText, doc |-> b] :
        b \in ApiBodies}

PlainRequest(route) ==
    [route |-> route, upload |-> "none", form |-> NoText, doc |-> Malformed]

\* what a client.chat.completions.create call does: return a completion with
\* this content, or raise with this message
Completed(t) == [ok |-> TRUE, text |-> t]
Raised(t)    == [ok |-> FALSE, text |-> t]

SummaryOutcomes ==
    { Completed(<<" ", "O", "\"", "\n", "k", ".", " ">>), Completed(<<"E", "r", "r", "o", "r", "s">>), Raised(<<"5", "0", "3">>) }

SentimentOutcomes ==
    { Completed(<<"S", ":", " ", "\"", "B", "a", "d", "\"", ".", " ", "x">>), Completed(<<"E", "r", "r", "o", "r">>), Raised(<<"5", "0", "3">>) }

----------------------------------------------------------------------------
(* The request handlers, one request at a time *)

Response(kind, status, flash) == [kind |-> kind, status |-> status, flash |-> flash]

\* flash(...) then redirect(url_for('index'))
Redirect(flash) == Response("redirect", 302, flash)
\* an exception leaves the view function: Flask answers 500
Unhandled == Response("exception", 500, "none")

\* the handler's record when analyze_transcript is not reached
NoRun(f, extracted) ==
    [extracted |-> extracted, invoked |-> FALSE, calls |-> 0, outcome |-> "none",
     summary |-> NoText, sentiment |-> NoText, saved |-> FALSE, before |-> f,
     records |-> <<>>]

Outcome(resp_, f, run_) == [resp |-> resp_, file |-> f, run |-> run_]

\* lines 197-211 and 225-238: analyze, save unless an "Error" value came
\* back, answer.  save_to_csv starts with transcript.replace (line 121), which
\* raises AttributeError for a transcript that is not a str.
Pipeline(cl, f, transcript, o1, o2, answer) ==
    LET a == AnalyzeTranscript(cl, o1, o2)
        save == ShouldSave(a.summary, a.sentiment)
        written == save /\ transcript.ty = "str"
    IN  Outcome(IF save /\ ~written THEN Unhandled ELSE answer,
                IF written THEN SaveToCsv(f, transcript.s, a.summary, a.sentiment)
                ELSE f,
                [extracted |-> transcript, invoked |-> TRUE, calls |-> a.calls,
                 outcome |-> a.outcome, summary |-> a.summary,
                 sentiment |-> a.sentiment, saved |-> written, before |-> f,
                 records |-> <<>>])

\* lines 168-211
Analyze(cl, f, r, o1, o2) ==
    IF r.upload = "badname" THEN
        Outcome(Redirect("bad_upload"), f, NoRun(f, PyStrVal(NoText)))
    ELSE IF r.upload = "undecodable" THEN
        Outcome(Redirect("read_error"), f, NoRun(f, PyStrVal(NoText)))
    ELSE IF r.upload = "decoded" THEN
        LET transcript == ParseJsonTranscript(r.doc)
        IN  IF ~Truthy(transcript)
            THEN Outcome(Redirect("invalid_json"), f, NoRun(f, transcript))
            ELSE Pipeline(cl, f, transcript, o1, o2, Response("page", 200, "none"))
    ELSE
        LET transcript == PyStrVal(Strip(r.form))
        IN  IF ~Truthy(transcript)
            THEN Outcome(Redirect("empty"), f, NoRun(f, transcript))
            ELSE Pipeline(cl, f, transcript, o1, o2, Response("page", 200, "none"))

\* lines 213-238.  `'transcript' not in data` raises TypeError for an int,
\* data['transcript'] raises TypeError for a list, .strip() raises
\* AttributeError for a value that is not a str.
ApiAnalyze(cl, f, r, o1, o2) ==
    LET data == r.doc
        isDict == data.kind = "dict"
        notData == IF isDict THEN data.pairs = <<>> ELSE ~Truthy(data.value)
        bad == Response("json", 400, "none")
    IN  IF notData THEN Outcome(bad, f, NoRun(f, PyNone))
        ELSE IF ~isDict /\ data.value.ty # "list" THEN
            Outcome(Unhandled, f, NoRun(f, PyNone))
        ELSE IF ~isDict THEN
            IF \E i \in 1..Len(data.value.items) : data.value.items[i] = KeyTranscript
            THEN Outcome(Unhandled, f, NoRun(f, PyNone))
            ELSE Outcome(bad, f, NoRun(f, PyNone))
        ELSE IF ~HasKey(data.pairs, KeyTranscript) THEN Outcome(bad, f, NoRun(f, PyNone))
        ELSE
            LET v == Lookup(data.pairs, KeyTranscript)
                transcript == PyStrVal(Strip(v.s))
            IN  IF v.ty # "str" THEN Outcome(Unhandled, f, NoRun(f, v))
                ELSE IF ~Truthy(transcript) THEN Outcome(bad, f, NoRun(f, transcript))
                ELSE Pipeline(cl, f, transcript, o1, o2, Response("json", 200, "none"))

\* lines 240-252
History(f) ==
    Outcome(Response("page", 200, "none"), f,
            [NoRun(f, PyNone) EXCEPT
                !.records = IF f.exists THEN Records(f.data) ELSE <<>>])

\* lines 254-277
DownloadCsv(f) ==
    IF ~f.exists
    THEN Outcome(Redirect("no_data"), CreateHeaderOnly(f), NoRun(f, PyNone))
    ELSE Outcome(Response("file", 200, "none"), f, NoRun(f, PyNone))

----------------------------------------------------------------------------
(* State machine of the application serving one request at a time *)

NoSave == [some |-> FALSE, transcript |-> NoText, summary |-> NoText,
           sentiment |-> NoText]

Threads == 1..NumThreads

\* the variables of the clean-up and of the worker threads, at rest
Unset == [set |-> FALSE, text |-> NoText]
IdleJob == [kind |-> "none", bytes |-> NoText, buf |-> NoText, pos |-> 0]
OthersIdle ==
    /\ completion = NoText /\ label = Unset /\ relabel = Unset
    /\ pc = [t \in Threads |-> "idle"]
    /\ job = [t \in Threads |-> IdleJob]
    /\ overlap = FALSE

\* lines 16-27: the client exists when GROQ_API_KEY is set and Groq() returns
Init ==
    /\ client \in {"None", "Groq"}
    /\ file = Absent
    /\ req = PlainRequest("none")
    /\ resp = Response("none", 0, "none")
    /\ run = NoRun(Absent, PyNone)
    /\ lastSaved = NoSave
    /\ OthersIdle

Handled(r, out) ==
    /\ req' = r
    /\ resp' = out.resp
    /\ run' = out.run
    /\ file' = out.file
    /\ lastSaved' = IF out.run.saved
                    THEN [some |-> TRUE, transcript |-> out.run.extracted.s,
                          summary |-> out.run.summary, sentiment |-> out.run.sentiment]
                    ELSE lastSaved
    /\ UNCHANGED <<client, completion, label, relabel, pc, job, overlap>>

PostAnalyze ==
    \E r \in AnalyzeRequests, o1 \in SummaryOutcomes, o2 \in SentimentOutcomes :
        Handled(r, Analyze(client, file, r, o1, o2))

PostApiAnalyze ==
    \E r \in ApiRequests, o1 \in SummaryOutcomes, o2 \in SentimentOutcomes :
        Handled(r, ApiAnalyze(client, file, r, o1, o2))

GetHistory == Handled(PlainRequest("/history"), History(file))

GetDownloadCsv == Handled(PlainRequest("/download-csv"), DownloadCsv(file))

Next == PostAnalyze \/ PostApiAnalyze \/ GetHistory \/ GetDownloadCsv

Spec == Init /\ [][Next]_vars

----------------------------------------------------------------------------
(* The clean-up of the sentiment completion, applied to every short text *)

NormAlphabet == {"a", "b", " ", "\"", "'", "\n", ":", "."}

DocumentedExample ==
    <<"S", "e", "n", "t", "i", "m", "e", "n", "t", ":", " ", "F", "r", "u", "s", "t", "r", "a", "t", "e", "d", " ", "a", "n", "d", " ", "N", "e", "g", "a", "t", "i", "v", "e", ".", " ", "T", "h", "e", " ", "c", "u", "s", "t", "o", "m", "e", "r", " ", "w", "a", "s", " ", "u", "p", "s", "e", "t", ".">>

AppAtRest ==
    /\ client = "Groq"
    /\ file = Absent
    /\ req = PlainRequest("none")
    /\ resp = Response("none", 0, "none")
    /\ run = NoRun(Absent, PyNone)
    /\ lastSaved = NoSave

NormInit ==
    /\ AppAtRest
    /\ completion \in TextsUpTo(NormAlphabet, MaxLen) \cup {DocumentedExample}
    /\ label = Unset /\ relabel = Unset
    /\ pc = [t \in Threads |-> "idle"]
    /\ job = [t \in Threads |-> IdleJob]
    /\ overlap = FALSE

\* lines 89-110 on the completion
CleanUp ==
    /\ ~label.set
    /\ label' = [set |-> TRUE, text |-> CleanSentiment(completion)]
    /\ UNCHANGED <<client, file, req, resp, run, lastSaved, completion, relabel,
                   pc, job, overlap>>

\* lines 89-110 on their own result
CleanAgain ==
    /\ label.set /\ ~relabel.set
    /\ relabel' = [set |-> TRUE, text |-> CleanSentiment(label.text)]
    /\ UNCHANGED <<client, file, req, resp, run, lastSaved, completion, label,
                   pc, job, overlap>>

NormNext == CleanUp \/ CleanAgain

SpecNorm == NormInit /\ [][NormNext]_vars

----------------------------------------------------------------------------
(* Worker threads: save_to_csv and download_csv running concurrently *)

\* the (transcript, summary, sentiment) arguments of the concurrent saves
ShortResult == <<<<"t">>, <<"s">>, <<"l">>>>
LongResult  == <<<<"h", "e", "l", "l", "o">>, <<"O", "k">>, <<"G", "o", "o", "d">>>>
SaveArgs == {ShortResult, LongResult}

Writing(t) == pc[t] \in {"opened", "header", "row"}

ConcInit ==
    /\ AppAtRest
    /\ completion = NoText /\ label = Unset /\ relabel = Unset
    /\ pc = [t \in Threads |-> "idle"]
    /\ job = [t \in Threads |-> IdleJob]
    /\ overlap = FALSE

AppUnchanged == UNCHANGED <<client, req, resp, run, lastSaved, completion, label, relabel>>

\* the open(filename, 'w') of line 126 or 260 by thread t
OpenBy(t, kind, fields) ==
    LET o == OpenTruncate(file)
    IN  /\ file' = [exists |-> TRUE, data |-> o.data]
        /\ job' = [job EXCEPT ![t] = [kind |-> kind, bytes |-> fields,
                                      buf |-> NoText, pos |-> o.pos]]
        /\ pc' = [pc EXCEPT ![t] = "opened"]
        /\ overlap' = IF kind = "save"
                      THEN \E u \in Threads \ {t} : Writing(u) /\ job[u].kind = "save"
                      ELSE overlap

\* lines 121-126: a thread enters save_to_csv and opens the file
SaveOpen(t) ==
    /\ pc[t] = "idle"
    /\ \E a \in SaveArgs :
          OpenBy(t, "save", <<CleanField(a[1]), CleanField(a[2]), CleanField(a[3])>>)
    /\ AppUnchanged

\* line 258: a thread enters download_csv; send_file when the file is there
DownloadCheck(t) ==
    /\ pc[t] = "idle"
    /\ pc' = [pc EXCEPT ![t] = IF file.exists THEN "idle" ELSE "absent"]
    /\ UNCHANGED <<file, job, overlap>>
    /\ AppUnchanged

\* line 260
DownloadOpen(t) ==
    /\ pc[t] = "absent"
    /\ OpenBy(t, "download", <<>>)
    /\ AppUnchanged

\* lines 131 and 263: writeheader() into the thread's buffer
WriteHeader(t) ==
    /\ pc[t] = "opened"
    /\ job' = [job EXCEPT ![t].buf = @ \o Header]
    /\ pc' = [pc EXCEPT ![t] = "header"]
    /\ UNCHANGED <<file, overlap>>
    /\ AppUnchanged

\* lines 134-138: writerow() into the thread's buffer
WriteTheRow(t) ==
    /\ pc[t] = "header" /\ job[t].kind = "save"
    /\ job' = [job EXCEPT ![t].buf = @ \o WriteRow(job[t].bytes)]
    /\ pc' = [pc EXCEPT ![t] = "row"]
    /\ UNCHANGED <<file, overlap>>
    /\ AppUnchanged

\* the end of the with block: the buffer is written at the descriptor's offset
Close(t) ==
    /\ \/ pc[t] = "row"
       \/ pc[t] = "header" /\ job[t].kind = "download"
    /\ file' = [exists |-> TRUE, data |-> WriteAt(file.data, job[t].pos, job[t].buf)]
    /\ job' = [job EXCEPT ![t] = IdleJob]
    /\ pc' = [pc EXCEPT ![t] = "idle"]
    /\ UNCHANGED overlap
    /\ AppUnchanged

ConcNext ==
    \E t \in Threads :
        \/ SaveOpen(t)
        \/ DownloadCheck(t)
        \/ DownloadOpen(t)
        \/ WriteHeader(t)
        \/ WriteTheRow(t)
        \/ Close(t)

SpecConc == ConcInit /\ [][ConcNext]_vars

----------------------------------------------------------------------------
(* Properties *)

IsAnalysis == req.route \in {"/analyze", "/api/analyze"}
StoredRows == IF file.exists THEN Records(file.data) ELSE <<>>
RowsBefore == IF run.before.exists THEN Records(run.before.data) ELSE <<>>

\* C1 as stated: when the latest request is an analysis whose two inference
\* calls both returned a completion, the store holds exactly one row, equal
\* to that analysis's (transcript, summary, sentiment).
C1_StoreHoldsLastCompletedAnalysis ==
    (IsAnalysis /\ run.outcome = "completed") =>
        StoredRows = << <<run.extracted.s, run.summary, run.sentiment>> >>

\* C1 amended: the store has no data row until save_to_csv first writes;
\* from then on it holds exactly one row, the fields of the most recent
\* written save after save_to_csv's clean-up (line breaks to spaces, double
\* quotes removed, trimmed).  A save is written exactly for an analysis of a
\* text transcript whose calls both completed and whose summary and cleaned
\* sentiment do not start with "Error".
C1_StoreHoldsLastSavedRow ==
    /\ lastSaved.some =>
          StoredRows = << <<CleanField(lastSaved.transcript),
                            CleanField(lastSaved.summary),
                            CleanField(lastSaved.sentiment)>> >>
    /\ ~lastSaved.some => StoredRows = <<>>
    /\ run.saved <=>
          /\ run.outcome = "completed"
          /\ run.extracted.ty = "str"
          /\ ~StartsWith(run.summary, ErrorPrefix)
          /\ ~StartsWith(run.sentiment, ErrorPrefix)

\* a second save has replaced a different row, and the clean-up changed the
\* transcript it was given
C1_Witness ==
    /\ run.saved
    /\ Len(RowsBefore) = 1
    /\ RowsBefore # StoredRows
    /\ CleanField(lastSaved.transcript) # lastSaved.transcript
    /\ CleanField(lastSaved.summary) # lastSaved.summary

\* C2: when the client is None or an inference call raises, both returned
\* values start with "Error", the handler answers normally, save_to_csv is
\* skipped and the store file is what it was before the request.
C2_FailureGivesErrorAndNoSave ==
    (IsAnalysis /\ run.invoked /\ run.outcome \in {"unavailable", "failed"}) =>
        /\ StartsWith(run.summary, ErrorPrefix)
        /\ StartsWith(run.sentiment, ErrorPrefix)
        /\ resp.kind \in {"page", "json"} /\ resp.status = 200
        /\ ~run.saved
        /\ file = run.before

\* an inference call raised while the store held a row
C2_Witness ==
    /\ IsAnalysis /\ run.invoked /\ run.outcome = "failed" /\ run.calls = 2
    /\ Len(RowsBefore) = 1

\* a transcript that is empty or only whitespace, on each input path
BlankText(v) == v.ty = "str" /\ Strip(v.s) = NoText
BlankTranscript ==
    \/ /\ req.route = "/analyze" /\ req.upload = "none"
       /\ Strip(req.form) = NoText
    \/ /\ req.route = "/analyze" /\ req.upload = "decoded"
       /\ req.doc.kind = "dict" /\ HasKey(req.doc.pairs, KeyTranscript)
       /\ BlankText(Lookup(req.doc.pairs, KeyTranscript))
    \/ /\ req.route = "/api/analyze" /\ req.doc.kind = "dict"
       /\ \/ ~HasKey(req.doc.pairs, KeyTranscript)
          \/ BlankText(Lookup(req.doc.pairs, KeyTranscript))

\* C3: a blank transcript on any input path is answered with the empty-input
\* signal (flashed redirect, or 400 from the API) and no inference call is made.
C3_BlankTranscriptIsRejected ==
    BlankTranscript =>
        /\ run.calls = 0 /\ ~run.invoked
        /\ IF req.route = "/analyze"
           THEN resp.kind = "redirect" /\ resp.flash # "none"
           ELSE resp.kind = "json" /\ resp.status = 400

\* C4: an uploaded file whose content is not valid JSON is answered by
\* /analyze with a flashed error and a redirect, with no inference call and
\* the store file unchanged; when its content reaches parse_json_transcript,
\* that returns None.
C4_MalformedUploadIsRejected ==
    (req.route = "/analyze" /\ req.upload # "none" /\ req.doc.kind = "malformed") =>
        /\ resp.kind = "redirect" /\ resp.flash # "none"
        /\ run.calls = 0 /\ ~run.invoked
        /\ file = run.before
        /\ req.upload = "decoded" =>
              run.extracted = PyNone /\ resp.flash = "invalid_json"

\* a malformed upload was rejected while the store held a row
C4_Witness ==
    /\ req.route = "/analyze" /\ req.upload = "decoded" /\ req.doc.kind = "malformed"
    /\ Len(RowsBefore) = 1
    /\ client = "Groq"

\* C5: every request ends in a normal response; no handler ends with an
\* unhandled exception.
C5_NoUnhandledException ==
    req.route # "none" =>
        /\ resp.kind \in {"page", "redirect", "json", "file"}
        /\ resp.status \in {200, 302, 400}

\* C6: while no analysis has been saved, every GET /download-csv leaves a
\* header-only file and redirects with the "no data" notice instead of
\* serving a file.
C6_DownloadWithoutDataRedirects ==
    (req.route = "/download-csv" /\ ~lastSaved.some) =>
        /\ resp = Redirect("no_data")
        /\ file = [exists |-> TRUE, data |-> Header]

\* the value of the first key present, in the documented priority order
FirstKeyValue(pairs) ==
    IF HasKey(pairs, KeyTranscript) THEN Lookup(pairs, KeyTranscript)
    ELSE IF HasKey(pairs, KeyConversation) THEN Lookup(pairs, KeyConversation)
    ELSE IF HasKey(pairs, KeyDialogue) THEN Lookup(pairs, KeyDialogue)
    ELSE Lookup(pairs, KeyText)

\* C7: for an uploaded JSON mapping with one of the keys transcript,
\* conversation, dialogue, text, parse_json_transcript returns the value of
\* the first of them present, coerced to text: the result is always a str.
C7_ExtractionReturnsText ==
    (/\ req.route = "/analyze" /\ req.upload = "decoded" /\ req.doc.kind = "dict"
     /\ \E k \in {KeyTranscript, KeyConversation, KeyDialogue, KeyText} :
            HasKey(req.doc.pairs, k)) =>
        run.extracted = PyStrVal(PyStr(FirstKeyValue(req.doc.pairs)))

\* C8: the sentiment clean-up is idempotent: cleaning the cleaned label
\* gives the same label.
C8_CleanUpIsIdempotent == relabel.set => relabel.text = label.text

\* the clean-up changed the completion, and was applied to its own result
C8_Witness ==
    /\ relabel.set
    /\ label.text # completion /\ label.text # NoText
    /\ Contains(completion, ":") /\ Contains(completion, ".")

\* the steps of the clean-up, on positions of the text
Quotes == {"\"", "'"}
StripSurrounding(t, chars) ==
    LET keep == {i \in 1..Len(t) : t[i] \notin chars}
    IN  IF keep = {} THEN NoText ELSE SubSeq(t, Min(keep), Max(keep))
WithoutQuotes(t) == SelectSeq(t, LAMBDA ch : ch \notin Quotes)
Positions(t, c) == {i \in 1..Len(t) : t[i] = c}
FirstLine(t) ==
    IF Positions(t, "\n") = {} THEN t ELSE SubSeq(t, 1, Min(Positions(t, "\n")) - 1)
AfterLastColon(t) ==
    IF Positions(t, ":") = {} THEN t ELSE SubSeq(t, Max(Positions(t, ":")) + 1, Len(t))
BeforeFirstPeriod(t) ==
    IF Positions(t, ".") = {} THEN t ELSE SubSeq(t, 1, Min(Positions(t, ".")) - 1)

\* the five steps as documented: step 1 strips quote characters and
\* whitespace from the two ends only
DocumentedSteps(t) ==
    StripSurrounding(
        BeforeFirstPeriod(AfterLastColon(FirstLine(
            StripSurrounding(t, Quotes \cup Whitespace)))),
        Whitespace)

\* the same steps with step 1 removing every quote character of the text
AmendedSteps(t) ==
    StripSurrounding(
        BeforeFirstPeriod(AfterLastColon(FirstLine(
            StripSurrounding(WithoutQuotes(t), Whitespace)))),
        Whitespace)

FrustratedAndNegative == <<"F", "r", "u", "s", "t", "r", "a", "t", "e", "d", " ", "a", "n", "d", " ", "N", "e", "g", "a", "t", "i", "v", "e">>

\* C9 as stated: the label is the result of the five documented steps, step 1
\* stripping only the surrounding quote characters.
C9_LabelIsDocumentedSteps == label.set => label.text = DocumentedSteps(completion)

\* C9 amended: the label is the result of: remove every double and single
\* quote character and trim; keep the first line; keep the text after the
\* last colon; keep the text before the first period; trim.  The documented
\* example yields "Frustrated and Negative".
C9_LabelIsAmendedSteps ==
    label.set =>
        /\ label.text = AmendedSteps(completion)
        /\ completion = DocumentedExample => label.text = FrustratedAndNegative

\* the documented example has been cleaned
C9_Witness ==
    /\ label.set /\ completion = DocumentedExample
    /\ label.text = FrustratedAndNegative

\* the rows save_to_csv can have been asked to write
WholeRows == {<<CleanField(a[1]), CleanField(a[2]), CleanField(a[3])>> : a \in SaveArgs}
OneWholeRowAtMost ==
    /\ Len(StoredRows) <= 1
    /\ Len(StoredRows) = 1 => StoredRows[1] \in WholeRows

\* C10 as stated: also with concurrent, interleaved saves and downloads the
\* file never holds two data rows or a row mixed from two results.
C10_AtMostOneRowAlways == OneWholeRowAtMost

\* C10 amended: the file holds at most one data row, a whole one, unless two
\* save_to_csv calls had the file open at the same time; a header-only
\* creation interleaved with a save adds no row.
C10_AtMostOneRowUnlessOverlap == ~overlap => OneWholeRowAtMost

\* a save has left its one row, and a header-only creation that began while
\* the file was absent is about to write over it
C10_Witness ==
    /\ ~overlap
    /\ Len(StoredRows) = 1
    /\ \E t \in Threads : pc[t] = "header" /\ job[t].kind = "download"
    /\ StoredRows = << <<CleanField(ShortResult[1]), CleanField(ShortResult[2]),
                         CleanField(ShortResult[3])>> >>

====
